---- MODULE Spec2Model ----
(***************************************************************************)
(* Order fulfilment core of django-ecommerce-api: the stock reservation    *)
(* of OrderCreateSerializer.create (orders/serializers.py), the payment    *)
(* webhook processor and the Celery retry / dead-letter path               *)
(* (orders/tasks.py).                                                      *)
(***************************************************************************)
EXTENDS Integers, Sequences, FiniteSets, TLC

\* ------------------------------------------------------------ bounds
MaxReqs == 2            \* concurrent order-creation requests
InitStock == 5          \* stock_quantity of every product at the start

\* max_retries=3 of every @shared_task
MaxRetries == 3

Products == {"A", "B"}
Quantities == {3}
Prices == {10, 25}
Reqs == 1 .. MaxReqs
\* task ids: the confirmation task of request r has id r, webhook deliveries
\* follow, then the tasks the replay command submits
MaxDeliveries == 2
MaxReplays == 2
TaskIds == 1 .. (MaxReqs + MaxDeliveries + MaxReplays)

\* one entry of validated_data["items"]
Items == [product_id : Products, quantity : Quantities]

\* validate_items rejects the empty list before create() runs: requests of one
\* item and of two items, in either order and with a repeated product
ItemLists == {<<a>> : a \in Items} \cup {<<a, b>> : a, b \in Items}

VARIABLES
    stock,            \* Product.stock_quantity, committed value
    price,            \* Product.price, committed value
    lock,             \* the cache lock "product_lock:<id>": its holder's handle
    pc,               \* where each request is inside create()
    items_data,       \* the request's items
    locks_acquired,   \* the request's list of acquired lock handles
    released,         \* per handle, how many times finally called release()
    products,         \* the request's in-memory Product rows read in the transaction
    outcome,          \* what create() returned or raised
    fault,            \* the infrastructure failure that hit the request
    orders,           \* committed Order rows with their OrderItem rows
    tasks,            \* Celery task instances by task id
    webhookEvents,    \* WebhookEvent rows by event_id
    emailLog,         \* orders with an EmailLog row of type order_confirmation
    mailsSent,        \* per order, confirmation mails handed to send_mail
    failedTasks,      \* FailedTask rows, in creation order
    clock,            \* timezone.now() of the task workers
    intake,           \* the last request payment_webhook handled and its response
    txn               \* per webhook task, the open transaction of its worker

vars == <<stock, price, lock, pc, items_data, locks_acquired, released, products,
          outcome, fault, orders, tasks, webhookEvents, emailLog, mailsSent,
          failedTasks, clock, intake, txn>>

resVars == <<stock, price, lock, pc, items_data, locks_acquired, released, products,
             outcome, fault>>
taskVars == <<webhookEvents, emailLog, mailsSent, failedTasks, clock, intake, txn>>

NoLock == [req |-> 0, idx |-> 0, key |-> "none"]
NoOrder == [exists |-> FALSE]
NoTask == [state |-> "none"]
NoEvent == [exists |-> FALSE]
\* a worker with no transaction open
NoTxn == [pc |-> "idle", created |-> FALSE, r |-> 0, order |-> NoOrder]
\* the fields payment_webhook requires; a field of the request body is absent,
\* present with a value Python takes as false ("" or 0), or present with a value
Fields == {"reference", "status", "amount"}
Kinds == {"absent", "falsy", "value"}
NoRequest == [seq |-> 0, kinds |-> [x \in Fields |-> "absent"], response |-> 0]
EventIds == {"evt-1", "evt-2"}
\* the event id of the scenarios that need only one
LateEvents == {"evt-1"}
NoRows == [p \in Products |-> [stock_quantity |-> 0, price |-> 0, loaded |-> FALSE]]

\* product_ids = [item["product_id"] for item in items_data]
product_ids(items) == [i \in 1 .. Len(items) |-> items[i].product_id]

\* cache.lock(f"product_lock:{product_id}", timeout=10, blocking_timeout=5)
LockHandle(r, i, p) == [req |-> r, idx |-> i, key |-> p]

\* ------------------------------------------------- the cache lock (redis lock)
\* the release with a bug: release() leaves the key in the cache
ReleaseNothing(lk, h) == lk

\* lock.release(): deletes the key only when this handle still owns it; after the
\* lease expired it raises LockNotOwnedError, which finally logs and swallows.
Release(lk, h) ==
    IF lk[h.key] = h THEN [lk EXCEPT ![h.key] = NoLock] ELSE lk

\* the release loop with a bug: it stops after the first lock
ReleaseFirstOnly(lk, handles, k) ==
    IF k = 0 THEN lk ELSE Release(lk, handles[1])

\* the release loop with a bug: the first release that raises ends the loop
RECURSIVE ReleaseUntilError(_, _, _)
ReleaseUntilError(lk, handles, k) ==
    IF k = 0 THEN lk
    ELSE IF \E i \in 1 .. k : lk[handles[i].key] # handles[i]
    THEN ReleaseUntilError(lk, handles, k - 1)
    ELSE Release(ReleaseUntilError(lk, handles, k - 1), handles[k])

\* finally: for lock in locks_acquired: lock.release()
RECURSIVE ReleaseAll(_, _, _)
ReleaseAll(lk, handles, k) ==
    IF k = 0 THEN lk
    ELSE Release(ReleaseAll(lk, handles, k - 1), handles[k])

\* ------------------------------------------------- the transaction body
\* The database is read committed: a transaction sees the rows committed when it
\* reads them, its writes become visible at its commit, and save() writes the
\* in-memory value of stock_quantity, not a decrement in SQL.
\* products = {p.id: p for p in Product.objects.filter(id__in=product_ids)}
ReadProducts(items) ==
    [p \in Products |->
        IF \E i \in 1 .. Len(items) : items[i].product_id = p
        THEN [stock_quantity |-> stock[p], price |-> price[p], loaded |-> TRUE]
        ELSE NoRows[p]]

\* the stock check with a bug: only the first item is checked
InsufficientStockFirstItem(items, prods) ==
    prods[items[1].product_id].stock_quantity < items[1].quantity

\* first loop: if product.stock_quantity < quantity: raise ValidationError
InsufficientStock(items, prods) ==
    \E i \in 1 .. Len(items) :
        prods[items[i].product_id].stock_quantity < items[i].quantity

\* second loop: product.stock_quantity -= quantity on the in-memory rows
RECURSIVE Decremented(_, _, _)
Decremented(items, prods, k) ==
    IF k = 0 THEN prods
    ELSE [Decremented(items, prods, k - 1)
            EXCEPT ![items[k].product_id].stock_quantity = @ - items[k].quantity]

\* OrderItem.objects.create(order, product, quantity, price=product.price)
OrderItemRows(items, prods) ==
    [i \in 1 .. Len(items) |->
        [product |-> items[i].product_id,
         quantity |-> items[i].quantity,
         price |-> prods[items[i].product_id].price]]

\* the total with a bug: total = price * quantity instead of total +=
OrderTotalAssigned(items, prods, k) ==
    IF k = 0 THEN 0
    ELSE prods[items[k].product_id].price * items[k].quantity

\* total += price * quantity
RECURSIVE OrderTotal(_, _, _)
OrderTotal(items, prods, k) ==
    IF k = 0 THEN 0
    ELSE OrderTotal(items, prods, k - 1)
            + prods[items[k].product_id].price * items[k].quantity

\* UniqueConstraint(fields=["order", "product"]): the second OrderItem of one
\* product in one order raises IntegrityError
ViolatesUniqueOrderProduct(items) ==
    \E i, j \in 1 .. Len(items) : i < j /\ items[i].product_id = items[j].product_id

\* Order.objects.create(**validated_data, payment_reference=...) with the model's
\* defaults, then order.total = total
NewOrder(r, items, prods) ==
    [exists |-> TRUE,
     status |-> "pending",
     payment_status |-> "pending",
     payment_reference |-> r,
     total |-> OrderTotal(items, prods, Len(items)),
     items |-> OrderItemRows(items, prods)]

\* product.save(update_fields=["stock_quantity"]): the in-memory value is written
WrittenStock(items, prods) ==
    [p \in Products |->
        IF prods[p].loaded
        THEN Decremented(items, prods, Len(items))[p].stock_quantity
        ELSE stock[p]]

\* a task instance as apply_async / delay creates it
NewTask(name, args) ==
    [name |-> name, args |-> args, retries |-> 0, state |-> "queued",
     runs |-> 0, error |-> "none", countdown |-> 0]

EmailArgs(order_id) ==
    [order_id |-> order_id, event_id |-> 0, payment_reference |-> 0, status |-> "none"]

\* ------------------------------------------------- OrderCreateSerializer.create
Faults == {"none", "enqueue", "commit"}

\* create() is entered with validated items
Start(r, items) ==
    /\ pc[r] = "idle"
    /\ pc' = [pc EXCEPT ![r] = "locking"]
    /\ items_data' = [items_data EXCEPT ![r] = items]
    /\ UNCHANGED <<stock, price, lock, locks_acquired, released, products, outcome,
                   fault, orders, tasks>>
    /\ UNCHANGED taskVars

NextKey(r) == product_ids(items_data[r])[Len(locks_acquired[r]) + 1]

\* lock.acquire(blocking=True) returns True
Acquire(r) ==
    /\ pc[r] = "locking"
    /\ lock[NextKey(r)] = NoLock
    /\ LET i == Len(locks_acquired[r]) + 1
           h == LockHandle(r, i, NextKey(r))
       IN  /\ lock' = [lock EXCEPT ![NextKey(r)] = h]
           /\ locks_acquired' = [locks_acquired EXCEPT ![r] = Append(@, h)]
           /\ released' = [released EXCEPT ![r] = Append(@, 0)]
           /\ pc' = [pc EXCEPT ![r] =
                        IF i = Len(items_data[r]) THEN "atomic" ELSE "locking"]
    /\ UNCHANGED <<stock, price, items_data, products, outcome, fault, orders, tasks>>
    /\ UNCHANGED taskVars

\* the timeout with a bug: the handle is appended before acquired is checked and
\* no error is raised
AcquireTimeoutGoesOn(r) ==
    /\ pc[r] = "locking"
    /\ lock[NextKey(r)] # NoLock
    /\ LET i == Len(locks_acquired[r]) + 1
       IN  /\ locks_acquired' = [locks_acquired EXCEPT ![r] =
                                    Append(@, LockHandle(r, i, NextKey(r)))]
           /\ released' = [released EXCEPT ![r] = Append(@, 0)]
           /\ pc' = [pc EXCEPT ![r] =
                        IF i = Len(items_data[r]) THEN "atomic" ELSE "locking"]
    /\ UNCHANGED <<stock, price, lock, items_data, products, outcome, fault, orders, tasks>>
    /\ UNCHANGED taskVars

\* lock.acquire returns False after blocking_timeout: ValidationError
AcquireTimeout(r) ==
    /\ pc[r] = "locking"
    /\ lock[NextKey(r)] # NoLock
    /\ outcome' = [outcome EXCEPT ![r] = "contention"]
    /\ pc' = [pc EXCEPT ![r] = "finally"]
    /\ UNCHANGED <<stock, price, lock, items_data, locks_acquired, released, products,
                   fault, orders, tasks>>
    /\ UNCHANGED taskVars

\* the lease (timeout=10) of a held lock runs out while its holder is still
\* inside create(): the key is gone from the cache and the next acquire succeeds.
\* The model has no clock: a holder may stay inside create() for longer than the
\* lease (it waits up to blocking_timeout=5 for each later lock, and nothing bounds
\* the duration of its transaction), and the code never extends the lease.
LeaseExpire(p) ==
    /\ lock[p] # NoLock
    /\ pc[lock[p].req] \in {"locking", "atomic", "body"}
    /\ lock' = [lock EXCEPT ![p] = NoLock]
    /\ UNCHANGED <<stock, price, pc, items_data, locks_acquired, released, products,
                   outcome, fault, orders, tasks>>
    /\ UNCHANGED taskVars

\* with transaction.atomic(): the products are read
AtomicRead(r) ==
    /\ pc[r] = "atomic"
    /\ products' = [products EXCEPT ![r] = ReadProducts(items_data[r])]
    /\ pc' = [pc EXCEPT ![r] = "body"]
    /\ UNCHANGED <<stock, price, lock, items_data, locks_acquired, released, outcome,
                   fault, orders, tasks>>
    /\ UNCHANGED taskVars

\* what the rest of the atomic block ends with, given the failure f injected
BodyOutcome(r, f) ==
    IF InsufficientStock(items_data[r], products[r]) THEN "insufficient"
    ELSE IF ViolatesUniqueOrderProduct(items_data[r]) THEN "error"
    ELSE IF f \in {"enqueue", "commit"} THEN "error"
    ELSE "created"

\* send_order_confirmation_email.delay(str(order.id)) is called inside the atomic
\* block: the message is published unless delay itself raises
Enqueued(r, f) ==
    /\ f \in {"none", "commit"}
    /\ ~InsufficientStock(items_data[r], products[r])
    /\ ~ViolatesUniqueOrderProduct(items_data[r])

\* the stock check, the order, the decrements, the enqueue and the commit
AtomicBody(r, f) ==
    /\ pc[r] = "body"
    /\ f = "none" \/ Enqueued(r, "none")
    /\ outcome' = [outcome EXCEPT ![r] = BodyOutcome(r, f)]
    /\ fault' = [fault EXCEPT ![r] = f]
    /\ IF BodyOutcome(r, f) = "created"
       THEN /\ stock' = WrittenStock(items_data[r], products[r])
            /\ orders' = [orders EXCEPT ![r] = NewOrder(r, items_data[r], products[r])]
       ELSE UNCHANGED <<stock, orders>>
    /\ tasks' = IF Enqueued(r, f)
                THEN [tasks EXCEPT ![r] = NewTask("send_order_confirmation_email",
                                                  EmailArgs(r))]
                ELSE tasks
    /\ pc' = [pc EXCEPT ![r] = "finally"]
    /\ UNCHANGED <<price, lock, items_data, locks_acquired, released, products>>
    /\ UNCHANGED taskVars

\* finally: every acquired lock is released, errors of release are logged
Finally(r) ==
    /\ pc[r] = "finally"
    /\ lock' = ReleaseAll(lock, locks_acquired[r], Len(locks_acquired[r]))
    /\ released' = [released EXCEPT ![r] = [i \in 1 .. Len(@) |-> @[i] + 1]]
    /\ pc' = [pc EXCEPT ![r] = "done"]
    /\ products' = [products EXCEPT ![r] = NoRows]
    /\ UNCHANGED <<stock, price, items_data, locks_acquired, outcome, fault,
                   orders, tasks>>
    /\ UNCHANGED taskVars

\* a price change with a bug: the OrderItems of the product are repriced too
ChangePriceRepricing(p, v) ==
    /\ price[p] # v
    /\ price' = [price EXCEPT ![p] = v]
    /\ orders' = [r \in Reqs |->
                    IF orders[r].exists
                    THEN [orders[r] EXCEPT
                            !.items = [i \in 1 .. Len(@) |->
                                         IF @[i].product = p
                                         THEN [@[i] EXCEPT !.price = v] ELSE @[i]]]
                    ELSE orders[r]]
    /\ UNCHANGED <<stock, lock, pc, items_data, locks_acquired, released, products,
                   outcome, fault, tasks>>
    /\ UNCHANGED taskVars

\* the admin edits Product.price (an action of SpecCatalog only)
ChangePrice(p, v) ==
    /\ price[p] # v
    /\ price' = [price EXCEPT ![p] = v]
    /\ UNCHANGED <<stock, lock, pc, items_data, locks_acquired, released, products,
                   outcome, fault, orders, tasks>>
    /\ UNCHANGED taskVars

InitReservation ==
    /\ stock = [p \in Products |-> InitStock]
    /\ price = [p \in Products |-> IF p = "A" THEN 10 ELSE 25]
    /\ lock = [p \in Products |-> NoLock]
    /\ pc = [r \in Reqs |-> "idle"]
    /\ items_data = [r \in Reqs |-> <<>>]
    /\ locks_acquired = [r \in Reqs |-> <<>>]
    /\ released = [r \in Reqs |-> <<>>]
    /\ products = [r \in Reqs |-> NoRows]
    /\ outcome = [r \in Reqs |-> "none"]
    /\ fault = [r \in Reqs |-> "none"]

InitTasks ==
    /\ webhookEvents = [e \in EventIds |-> NoEvent]
    /\ emailLog = {}
    /\ mailsSent = [r \in Reqs |-> 0]
    /\ failedTasks = <<>>
    /\ clock = 0
    /\ intake = NoRequest
    /\ txn = [t \in TaskIds |-> NoTxn]

Init ==
    /\ InitReservation
    /\ InitTasks
    /\ orders = [r \in Reqs |-> NoOrder]
    /\ tasks = [t \in TaskIds |-> NoTask]

Next ==
    \/ \E r \in Reqs, items \in ItemLists : Start(r, items)
    \/ \E r \in Reqs : Acquire(r)
    \/ \E r \in Reqs : AcquireTimeout(r)
    \/ \E p \in Products : LeaseExpire(p)
    \/ \E r \in Reqs : AtomicRead(r)
    \/ \E r \in Reqs, f \in Faults : AtomicBody(r, f)
    \/ \E r \in Reqs : Finally(r)

Spec == Init /\ [][Next]_vars

\* ------------------------------------------------- the Order model's constants
\* the class attributes of Order: an attribute that is not among them raises
\* AttributeError where the code reads it
OrderConstants ==
    [STATUS_PENDING |-> "pending", STATUS_CONFIRMED |-> "confirmed",
     STATUS_PROCESSING |-> "processing", STATUS_SHIPPED |-> "shipped",
     STATUS_DELIVERED |-> "delivered", STATUS_CANCELLED |-> "cancelled",
     STATUS_RETURNED |-> "returned", STATUS_FAILED |-> "failed",
     PAYMENT_PENDING |-> "pending", PAYMENT_PAID |-> "paid",
     PAYMENT_FAILED |-> "failed"]

HasOrderConstant(name) == name \in DOMAIN OrderConstants

\* ------------------------------------------------- the task runner
\* payment references of webhook deliveries: 0 is the reference of no order
Refs == {0, 1}
Statuses == {"success", "failed", "refunded"}
WebhookTaskIds == (MaxReqs + 1) .. (MaxReqs + MaxDeliveries)
ReplayTaskIds == (MaxReqs + MaxDeliveries + 1) .. (MaxReqs + MaxDeliveries + MaxReplays)

WebhookArgs(e, ref, st) ==
    [order_id |-> 0, event_id |-> e, payment_reference |-> ref, status |-> st]

\* countdown=2**self.request.retries
Backoff(retries) == 2 ^ retries

\* the retry bound with a bug: one retry too many
RetriesLeftOffByOne(task) == task.retries <= MaxRetries

\* self.retry(exc=exc, ...) raises Retry while retries are left and exc itself
\* once request.retries has reached max_retries
RetriesLeft(task) == task.retries < MaxRetries

\* the countdown each task passes to self.retry: 2 ** self.request.retries in the
\* email and the webhook task, a fixed number of seconds in the periodic jobs
Countdown(task) ==
    IF task.name \in {"send_order_confirmation_email", "process_payment_webhook"}
    THEN Backoff(task.retries)
    ELSE IF task.name = "cleanup_old_webhooks" THEN 3600
    ELSE 300

\* the task instance after an execution that raised into self.retry
AfterRaise(task, err) ==
    IF RetriesLeft(task)
    THEN [task EXCEPT !.retries = @ + 1, !.runs = @ + 1, !.error = err,
                      !.countdown = Countdown(task)]
    ELSE [task EXCEPT !.state = "failed", !.runs = @ + 1, !.error = err]

\* the task instance after an execution that returned
AfterReturn(task) ==
    [task EXCEPT !.state = "success", !.runs = @ + 1, !.error = "none"]

\* retried_at of a FailedTask that was never replayed
NoTime == -1

\* CallbackTask.on_failure: FailedTask.objects.create(...)
on_failure(rows, t, task, err) ==
    Append(rows, [task_name |-> task.name, task_id |-> t, args |-> task.args,
                  exception |-> err, retried |-> FALSE, retried_at |-> NoTime])

\* the FailedTask rows after an execution that raised: on_failure runs only when
\* the task ends in FAILURE, not when it is retried
FailedTasksAfterRaise(rows, t, task, err) ==
    IF RetriesLeft(task) THEN rows ELSE on_failure(rows, t, task, err)

\* payment_webhook: the intake enqueues process_payment_webhook and answers at once
Deliver(t, e, ref, st) ==
    /\ t \in WebhookTaskIds
    /\ tasks[t] = NoTask
    /\ \A u \in WebhookTaskIds : u < t => tasks[u] # NoTask
    /\ tasks' = [tasks EXCEPT ![t] = NewTask("process_payment_webhook",
                                             WebhookArgs(e, ref, st))]
    /\ UNCHANGED resVars
    /\ UNCHANGED <<orders, webhookEvents, emailLog, mailsSent, failedTasks, clock,
                   intake, txn>>

\* Order.objects.select_for_update().get(payment_reference=...)
OrderByReference(ref) ==
    {r \in Reqs : orders[r].exists /\ orders[r].payment_reference = ref}

\* the duplicate check with a bug: an existing row is never taken as processed
NeverProcessed(e) == FALSE

\* if not created and webhook_event.processed: return
AlreadyProcessed(e) == webhookEvents[e].exists /\ webhookEvents[e].processed

\* the failure an execution of the webhook body ends with ("none": it returns):
\* a store error f anywhere in the transaction, or the AttributeError of the
\* status == "failed" branch reading Order.STATUS_PAYMENT_FAILED
WebhookError(args, f) ==
    IF f = "db" THEN "db"
    ELSE IF /\ ~AlreadyProcessed(args.event_id)
            /\ OrderByReference(args.payment_reference) # {}
            /\ args.status = "failed"
            /\ ~HasOrderConstant("STATUS_PAYMENT_FAILED")
         THEN "attribute"
    ELSE "none"

\* the branches with a bug: the success branch forgets order.status
ApplyStatusPaymentOnly(order, st) ==
    IF st = "success"
    THEN IF order.payment_status # OrderConstants.PAYMENT_PAID
         THEN [order EXCEPT !.payment_status = OrderConstants.PAYMENT_PAID]
         ELSE order
    ELSE order

\* the branches with a bug: the success branch forgets order.payment_status
ApplyStatusStatusOnly(order, st) ==
    IF st = "success"
    THEN IF order.payment_status # OrderConstants.PAYMENT_PAID
         THEN [order EXCEPT !.status = OrderConstants.STATUS_CONFIRMED]
         ELSE order
    ELSE order

\* the branches with a bug: every status but "failed" is taken as a success
ApplyStatusElseSuccess(order, st) ==
    IF st # "failed"
    THEN IF order.payment_status # OrderConstants.PAYMENT_PAID
         THEN [order EXCEPT !.payment_status = OrderConstants.PAYMENT_PAID,
                            !.status = OrderConstants.STATUS_CONFIRMED]
         ELSE order
    ELSE [order EXCEPT !.payment_status = OrderConstants.STATUS_PAYMENT_FAILED,
                       !.status = OrderConstants.STATUS_FAILED]

\* the branches on status, applied to the locked order
ApplyStatus(order, st) ==
    IF st = "success"
    THEN IF order.payment_status # OrderConstants.PAYMENT_PAID
         THEN [order EXCEPT !.payment_status = OrderConstants.PAYMENT_PAID,
                            !.status = OrderConstants.STATUS_CONFIRMED]
         ELSE order
    ELSE IF st = "failed"
    THEN [order EXCEPT !.payment_status = OrderConstants.STATUS_PAYMENT_FAILED,
                       !.status = OrderConstants.STATUS_FAILED]
    ELSE order

\* the Order rows with a bug: the order is not looked up by payment_reference
OrdersAfterWebhookAll(args) ==
    IF AlreadyProcessed(args.event_id) THEN orders
    ELSE [r \in Reqs |->
            IF orders[r].exists /\ OrderByReference(args.payment_reference) # {}
            THEN ApplyStatus(orders[r], args.status)
            ELSE orders[r]]

\* the Order rows the committed transaction leaves
OrdersAfterWebhook(args) ==
    IF AlreadyProcessed(args.event_id) THEN orders
    ELSE [r \in Reqs |->
            IF r \in OrderByReference(args.payment_reference)
            THEN ApplyStatus(orders[r], args.status)
            ELSE orders[r]]

\* the events table with a bug: an event whose order is missing is not marked
EventsAfterWebhookOrphanUnmarked(args) ==
    IF OrderByReference(args.payment_reference) = {} \/ AlreadyProcessed(args.event_id)
    THEN webhookEvents
    ELSE [webhookEvents EXCEPT
            ![args.event_id] =
                [exists |-> TRUE,
                 payload |-> [payment_reference |-> args.payment_reference,
                              status |-> args.status],
                 processed |-> TRUE, processed_at |-> clock]]

\* get_or_create with the payload as defaults, then processed = True and
\* processed_at = timezone.now()
EventsAfterWebhook(args) ==
    IF AlreadyProcessed(args.event_id) THEN webhookEvents
    ELSE [webhookEvents EXCEPT ![args.event_id] =
            [exists |-> TRUE,
             payload |-> IF webhookEvents[args.event_id].exists
                         THEN webhookEvents[args.event_id].payload
                         ELSE [payment_reference |-> args.payment_reference,
                               status |-> args.status],
             processed |-> TRUE,
             processed_at |-> clock]]

\* one execution of process_payment_webhook by a worker; an exception leaves the
\* atomic block, so nothing of the transaction is committed
ExecuteWebhook(t, f) ==
    /\ t \in WebhookTaskIds \cup ReplayTaskIds
    /\ tasks[t] # NoTask
    /\ tasks[t].name = "process_payment_webhook"
    /\ tasks[t].state = "queued"
    /\ LET args == tasks[t].args
           err == WebhookError(args, f)
       IN  IF err = "none"
           THEN /\ orders' = OrdersAfterWebhook(args)
                /\ webhookEvents' = EventsAfterWebhook(args)
                /\ clock' = IF AlreadyProcessed(args.event_id) THEN clock ELSE clock + 1
                /\ tasks' = [tasks EXCEPT ![t] = AfterReturn(@)]
                /\ UNCHANGED failedTasks
           ELSE /\ tasks' = [tasks EXCEPT ![t] = AfterRaise(@, err)]
                /\ failedTasks' = FailedTasksAfterRaise(failedTasks, t, tasks[t], err)
                /\ UNCHANGED <<orders, webhookEvents, clock>>
    /\ UNCHANGED resVars
    /\ UNCHANGED <<emailLog, mailsSent, intake, txn>>

\* two orders committed by earlier requests, their confirmation tasks queued
PlacedItems(r) == <<[product_id |-> IF r = 1 THEN "A" ELSE "B", quantity |-> 3]>>
Placed == {r \in Reqs : r <= 2}

InitPlaced ==
    /\ price = [p \in Products |-> IF p = "A" THEN 10 ELSE 25]
    /\ stock = [p \in Products |->
                  IF \E r \in Placed : PlacedItems(r)[1].product_id = p
                  THEN InitStock - 3 ELSE InitStock]
    /\ lock = [p \in Products |-> NoLock]
    /\ pc = [r \in Reqs |-> IF r \in Placed THEN "done" ELSE "idle"]
    /\ items_data = [r \in Reqs |-> IF r \in Placed THEN PlacedItems(r) ELSE <<>>]
    /\ locks_acquired = [r \in Reqs |->
                           IF r \in Placed
                           THEN <<LockHandle(r, 1, PlacedItems(r)[1].product_id)>>
                           ELSE <<>>]
    /\ released = [r \in Reqs |-> IF r \in Placed THEN <<1>> ELSE <<>>]
    /\ products = [r \in Reqs |-> NoRows]
    /\ outcome = [r \in Reqs |-> IF r \in Placed THEN "created" ELSE "none"]
    /\ fault = [r \in Reqs |-> "none"]
    /\ orders = [r \in Reqs |->
                   IF r \in Placed
                   THEN [exists |-> TRUE, status |-> "pending",
                         payment_status |-> "pending", payment_reference |-> r,
                         total |-> 3 * price[PlacedItems(r)[1].product_id],
                         items |-> <<[product |-> PlacedItems(r)[1].product_id,
                                      quantity |-> 3,
                                      price |-> price[PlacedItems(r)[1].product_id]]>>]
                   ELSE NoOrder]
    /\ tasks = [t \in TaskIds |->
                  IF t \in Placed
                  THEN NewTask("send_order_confirmation_email", EmailArgs(t))
                  ELSE NoTask]
    /\ InitTasks

TaskFaults == {"none", "db"}

NextTasks ==
    \/ \E t \in WebhookTaskIds, e \in EventIds, ref \in Refs, st \in Statuses :
          Deliver(t, e, ref, st)
    \/ \E t \in WebhookTaskIds, f \in TaskFaults : ExecuteWebhook(t, f)

SpecTasks == InitPlaced /\ [][NextTasks]_vars

\* ================================================= claims
HandleIdx(r) == 1 .. Len(locks_acquired[r])

\* the quantity of product p in the OrderItem rows of one order
RECURSIVE QuantityIn(_, _, _)
QuantityIn(rows, p, k) ==
    IF k = 0 THEN 0
    ELSE QuantityIn(rows, p, k - 1) + (IF rows[k].product = p THEN rows[k].quantity ELSE 0)

\* the quantity of product p in the committed orders of requests 1 .. n
RECURSIVE CommittedQuantity(_, _)
CommittedQuantity(p, n) ==
    IF n = 0 THEN 0
    ELSE CommittedQuantity(p, n - 1)
            + (IF orders[n].exists
               THEN QuantityIn(orders[n].items, p, Len(orders[n].items))
               ELSE 0)

\* C1: for every product, the total quantity in committed orders never exceeds the
\* initial stock S, and stock_quantity is never negative
C1_NoOversell ==
    \A p \in Products :
        /\ CommittedQuantity(p, MaxReqs) <= InitStock
        /\ stock[p] >= 0

\* the rows the request read show too little stock for one of its items
FindsShortage(r) ==
    \E i \in 1 .. Len(items_data[r]) :
        /\ products[r][items_data[r][i].product_id].loaded
        /\ products[r][items_data[r][i].product_id].stock_quantity
              < items_data[r][i].quantity

\* C2: a request that finds stock < quantity for one of its items fails with the
\* insufficient-stock error, that step changes no stock and no order, and no order
\* of the request exists afterwards
C2_AllOrNothing ==
    /\ [](\A r \in Reqs : outcome[r] = "insufficient" => ~orders[r].exists)
    /\ [][\A r \in Reqs :
            (pc[r] = "body" /\ pc'[r] # "body" /\ FindsShortage(r))
                => /\ outcome'[r] = "insufficient"
                   /\ stock' = stock
                   /\ orders' = orders]_vars

\* C2 witness: a two-product request failed on one item while the stock of its
\* other item would have sufficed
C2_Witness ==
    \E r \in Reqs :
        /\ pc[r] = "done"
        /\ outcome[r] = "insufficient"
        /\ Len(items_data[r]) = 2
        /\ items_data[r][1].product_id # items_data[r][2].product_id
        /\ \E i \in 1 .. 2 : stock[items_data[r][i].product_id] >= items_data[r][i].quantity
        /\ \E i \in 1 .. 2 : stock[items_data[r][i].product_id] < items_data[r][i].quantity

\* task t is executed by a worker in this step
Runs(t) == tasks[t] # NoTask /\ tasks'[t] # NoTask /\ tasks'[t].runs = tasks[t].runs + 1

\* the event of task t has a WebhookEvent row marked processed
EventDone(t) ==
    /\ webhookEvents[tasks[t].args.event_id].exists
    /\ webhookEvents[tasks[t].args.event_id].processed

\* C3: once an event identifier is marked processed, every further execution for
\* that identifier leaves all Order rows and all WebhookEvent rows as they were,
\* and ends in success unless the store itself fails during that execution
C3_ReplayIsNoOp ==
    [][\A t \in WebhookTaskIds :
          (Runs(t) /\ EventDone(t))
              => /\ orders' = orders
                 /\ webhookEvents' = webhookEvents
                 /\ (tasks'[t].error # "db"
                        => tasks'[t].state = "success" /\ failedTasks' = failedTasks)]_vars

\* C3 witness: an event that paid an order was delivered a second time and both
\* executions ended in success
C3_Witness ==
    \E t, u \in WebhookTaskIds :
        /\ t < u
        /\ tasks[t] # NoTask /\ tasks[u] # NoTask
        /\ tasks[t].state = "success" /\ tasks[u].state = "success"
        /\ tasks[t].args.event_id = tasks[u].args.event_id
        /\ tasks[u].args.status = "refunded"
        /\ \E r \in Reqs : orders[r].exists /\ orders[r].payment_status = "paid"
        /\ webhookEvents[tasks[t].args.event_id].payload.status = "success"

\* C4: with stock 5 of A and two requests each asking 3 of A, once both have
\* returned exactly one has committed, the other failed with insufficient stock,
\* and the stock of A is 2
C4_ExactlyOneCommits ==
    LET three == <<[product_id |-> "A", quantity |-> 3]>>
    IN  (/\ InitStock = 5
         /\ items_data[1] = three /\ items_data[2] = three
         /\ pc[1] = "done" /\ pc[2] = "done"
         /\ \A r \in Reqs : r > 2 => pc[r] = "idle")
            => /\ stock["A"] = 2
               /\ \/ outcome[1] = "created" /\ outcome[2] = "insufficient"
                  \/ outcome[2] = "created" /\ outcome[1] = "insufficient"

\* C5: when a request has returned, each lock it acquired was released exactly
\* once, none before the finally block, and none of its handles holds a lock
C5_LocksReleasedOnce ==
    \A r \in Reqs :
        /\ Len(released[r]) = Len(locks_acquired[r])
        /\ pc[r] = "done" =>
              \A i \in HandleIdx(r) :
                  /\ released[r][i] = 1
                  /\ lock[locks_acquired[r][i].key] # locks_acquired[r][i]
        /\ pc[r] # "done" => \A i \in HandleIdx(r) : released[r][i] = 0

\* C5 witness: requests have returned on the committed path and on the
\* unexpected-exception path, each holding two locks until its finally block
C5_Witness ==
    \E r, q \in Reqs :
        /\ pc[r] = "done" /\ outcome[r] = "created" /\ Len(locks_acquired[r]) = 2
        /\ pc[q] = "done" /\ outcome[q] = "error" /\ Len(locks_acquired[q]) = 2

\* the sum of price x quantity over the OrderItem rows of one order
RECURSIVE SubtotalSum(_, _)
SubtotalSum(rows, k) ==
    IF k = 0 THEN 0 ELSE SubtotalSum(rows, k - 1) + rows[k].price * rows[k].quantity

\* C6: the total of every committed order is the sum of captured price x quantity
\* over its items
C6_TotalIsSum ==
    \A r \in Reqs :
        orders[r].exists => orders[r].total = SubtotalSum(orders[r].items, Len(orders[r].items))

\* C6 witness: a committed order with two items of different prices
C6_Witness ==
    \E r \in Reqs :
        /\ orders[r].exists
        /\ Len(orders[r].items) = 2
        /\ orders[r].items[1].price # orders[r].items[2].price

\* the lock the request asks for next is held
WaitsOnHeldLock(r) ==
    /\ pc[r] = "locking"
    /\ lock[product_ids(items_data[r])[Len(locks_acquired[r]) + 1]] # NoLock

\* C7: a request whose lock acquisition times out fails with the contention error
\* without touching stock or orders; a request that failed so never has an order,
\* changes no stock afterwards, and holds no lock once it has returned
C7_TimeoutCommitsNothing ==
    /\ [](\A r \in Reqs :
            outcome[r] = "contention" =>
                /\ ~orders[r].exists
                /\ pc[r] \in {"finally", "done"}
                /\ pc[r] = "done" =>
                      \A p \in Products : lock[p] = NoLock \/ lock[p].req # r)
    /\ [][\A r \in Reqs :
            /\ (WaitsOnHeldLock(r) /\ <<pc[r], locks_acquired[r]>>' # <<pc[r], locks_acquired[r]>>)
                  => /\ outcome'[r] = "contention"
                     /\ stock' = stock
                     /\ orders' = orders
            /\ (outcome[r] = "contention" /\ pc'[r] # pc[r]) => stock' = stock]_vars

\* C7 witness: a request timed out on its second product after it had acquired the
\* lock of its first, and has returned
C7_Witness ==
    \E r \in Reqs :
        /\ pc[r] = "done"
        /\ outcome[r] = "contention"
        /\ Len(items_data[r]) = 2
        /\ Len(locks_acquired[r]) = 1
        /\ lock[locks_acquired[r][1].key] = NoLock

\* the FailedTask rows of task t
FailedRows(t) == {i \in 1 .. Len(failedTasks) : failedTasks[i].task_id = t}

\* C8: a task is executed at most max_retries + 1 = 4 times; a task still queued
\* has failed in every execution so far and has executions left; a task whose
\* every execution failed ends after the 4th with exactly one FailedTask row, and
\* no other task has a FailedTask row
C8_FourRunsOneFailedTask ==
    \A t \in WebhookTaskIds :
        tasks[t] # NoTask =>
            /\ tasks[t].runs <= MaxRetries + 1
            /\ tasks[t].state = "queued" => tasks[t].runs = tasks[t].retries /\ tasks[t].runs <= MaxRetries
            /\ tasks[t].state = "failed" =>
                  tasks[t].runs = MaxRetries + 1 /\ Cardinality(FailedRows(t)) = 1
            /\ tasks[t].state # "failed" => FailedRows(t) = {}

\* C8 witness: a task has failed four times and is dead-lettered
C8_Witness ==
    \E t \in WebhookTaskIds :
        /\ tasks[t] # NoTask
        /\ tasks[t].state = "failed"
        /\ tasks[t].runs = 4
        /\ tasks[t].error = "db"
        /\ Cardinality(FailedRows(t)) = 1

\* C9: a request whose enqueue of the confirmation task raised still has its order
\* committed and returns it
C9_EnqueueFailureKeepsOrder ==
    \A r \in Reqs :
        (fault[r] = "enqueue" /\ pc[r] \in {"finally", "done"})
            => orders[r].exists /\ outcome[r] = "created"

\* C10: an execution for a not yet processed event with status failed and an
\* existing order, not hit by a store error, leaves the order with payment_status
\* and status failed and the event marked processed with a timestamp
C10_FailedEventFailsOrder ==
    [][\A t \in WebhookTaskIds :
          (/\ Runs(t)
           /\ ~EventDone(t)
           /\ tasks[t].args.status = "failed"
           /\ tasks'[t].error # "db"
           /\ \E r \in Reqs : orders[r].exists
                              /\ orders[r].payment_reference = tasks[t].args.payment_reference)
              => /\ \A r \in Reqs :
                      (orders[r].exists
                        /\ orders[r].payment_reference = tasks[t].args.payment_reference)
                          => /\ orders'[r].payment_status = "failed"
                             /\ orders'[r].status = "failed"
                 /\ webhookEvents'[tasks[t].args.event_id].exists
                 /\ webhookEvents'[tasks[t].args.event_id].processed
                 /\ webhookEvents'[tasks[t].args.event_id].processed_at = clock]_vars

\* ---- order creation while the catalogue changes ----

\* the requests that run while prices are edited
CatalogReqs == {1, 2}

NextCatalog ==
    \/ \E r \in CatalogReqs, items \in ItemLists : Start(r, items)
    \/ \E r \in CatalogReqs : Acquire(r)
    \/ \E r \in CatalogReqs : AcquireTimeout(r)
    \/ \E p \in Products : LeaseExpire(p)
    \/ \E r \in CatalogReqs : AtomicRead(r)
    \/ \E r \in CatalogReqs, f \in Faults : AtomicBody(r, f)
    \/ \E r \in CatalogReqs : Finally(r)
    \/ \E p \in Products, v \in Prices : ChangePrice(p, v)

SpecCatalog == Init /\ [][NextCatalog]_vars

\* ---- the replay command (retry_failed_tasks) ----

\* current_app.tasks: the names the worker has registered
TaskRegistry ==
    {"send_order_confirmation_email", "process_payment_webhook", "check_low_stock",
     "cleanup_old_webhooks", "generate_daily_sales_report", "monitor_failed_tasks"}

\* FailedTask.objects.filter(retried=False)
Unretried(rows) == {i \in 1 .. Len(rows) : ~rows[i].retried}

\* the ids apply_async gives to the tasks it submits, in submission order
FreeReplayIds == {t \in ReplayTaskIds : tasks[t] = NoTask}
NthFreeReplayId(k) ==
    CHOOSE t \in FreeReplayIds : Cardinality({u \in FreeReplayIds : u < t}) = k

\* retry_task with a bug: the record is saved without the retried flag
RetriedRowUnmarked(row) == row

\* retry_task: failed_task.retried = True; retried_at = timezone.now(); save()
RetriedRow(row) == [row EXCEPT !.retried = TRUE, !.retried_at = clock]

\* retry_task on the rows S: a row whose task is not in the registry is left alone
Replayable(rows, S) == {i \in S : rows[i].task_name \in TaskRegistry}

RowsAfterRetry(rows, S) ==
    [i \in 1 .. Len(rows) |->
        IF i \in Replayable(rows, S) THEN RetriedRow(rows[i]) ELSE rows[i]]

\* task.apply_async(args=failed_task.args, kwargs=failed_task.kwargs), once for
\* each row of S, in the order of the rows
TasksAfterRetry(rows, S) ==
    [t \in TaskIds |->
        IF \E i \in Replayable(rows, S) :
              t = NthFreeReplayId(Cardinality({j \in Replayable(rows, S) : j < i}))
        THEN LET i == CHOOSE i \in Replayable(rows, S) :
                        t = NthFreeReplayId(Cardinality({j \in Replayable(rows, S) : j < i}))
             IN  NewTask(rows[i].task_name, rows[i].args)
        ELSE tasks[t]]

\* handle for the rows S; the model has ids for MaxReplays submitted tasks
Retry(S) ==
    /\ Cardinality(Replayable(failedTasks, S)) <= Cardinality(FreeReplayIds)
    /\ tasks' = TasksAfterRetry(failedTasks, S)
    /\ failedTasks' = RowsAfterRetry(failedTasks, S)
    /\ UNCHANGED resVars
    /\ UNCHANGED <<orders, webhookEvents, emailLog, mailsSent, clock, intake, txn>>

\* --task-id: FailedTask.objects.get(task_id=...), whether or not it was retried
RetryById(id) ==
    /\ \E i \in 1 .. Len(failedTasks) : failedTasks[i].task_id = id
    /\ Retry({i \in 1 .. Len(failedTasks) : failedTasks[i].task_id = id})

\* --all: every row with retried = False
RetryAll ==
    /\ Unretried(failedTasks) # {}
    /\ Retry(Unretried(failedTasks))

\* deliveries that end in the dead-letter table, and some that do not
ReplayStatuses == {"failed", "success"}

NextReplay ==
    \/ \E t \in WebhookTaskIds, st \in ReplayStatuses : Deliver(t, "evt-1", 1, st)
    \/ \E t \in WebhookTaskIds \cup ReplayTaskIds : ExecuteWebhook(t, "none")
    \/ \E id \in TaskIds : RetryById(id)
    \/ RetryAll

SpecReplay == InitPlaced /\ [][NextReplay]_vars

\* ---- the webhook intake (payment_webhook) with its validation ----

\* the truth value Python gives a field: None, "" and 0 are false
Truthy(k) == k = "value"

\* all([payment_reference, payment_status, amount])
AllFields(k) == \A x \in Fields : Truthy(k[x])

\* payment_webhook for a request body whose required fields are of the kinds k and,
\* where they have a value, carry e, ref and st: 400 and nothing else when a field
\* is not true, else process_payment_webhook.delay(...) and 200
Intake(e, ref, st, k) ==
    /\ intake' = [seq |-> 1 - intake.seq, kinds |-> k,
                  response |-> IF AllFields(k) THEN 200 ELSE 400]
    /\ IF AllFields(k)
       THEN \E t \in WebhookTaskIds :
               /\ tasks[t] = NoTask
               /\ \A u \in WebhookTaskIds : u < t => tasks[u] # NoTask
               /\ tasks' = [tasks EXCEPT ![t] = NewTask("process_payment_webhook",
                                                        WebhookArgs(e, ref, st))]
       ELSE tasks' = tasks
    /\ UNCHANGED resVars
    /\ UNCHANGED <<orders, webhookEvents, emailLog, mailsSent, failedTasks, clock, txn>>

NextIntake ==
    \E e \in LateEvents, ref \in Refs, st \in Statuses, k \in [Fields -> Kinds] :
        Intake(e, ref, st, k)

SpecIntake == InitPlaced /\ [][NextIntake]_vars

\* ---- the webhook transaction, statement by statement, on several workers ----

\* the transaction of task u has inserted its WebhookEvent row and has not ended
HasPendingInsert(u) == tasks[u] # NoTask /\ txn[u].pc # "idle" /\ txn[u].created

\* event_id is unique: the INSERT of get_or_create waits while another open
\* transaction has inserted the same event_id, and sees its row or its rollback
InsertBlocked(t) ==
    \E u \in TaskIds \ {t} :
        HasPendingInsert(u) /\ tasks[u].args.event_id = tasks[t].args.event_id

\* the row lock with a bug: a plain get() instead of select_for_update().get()
RowNeverLocked(t, r) == FALSE

\* select_for_update: the SELECT waits while another open transaction holds the row
RowLocked(t, r) ==
    \E u \in TaskIds \ {t} : txn[u].pc = "locked" /\ txn[u].r = r

\* the rollback with a bug: the inserted event row outlives the transaction
EventsAfterRollbackKept(t) ==
    IF txn[t].created
    THEN [webhookEvents EXCEPT ![tasks[t].args.event_id] =
            [exists |-> TRUE,
             payload |-> [payment_reference |-> tasks[t].args.payment_reference,
                          status |-> tasks[t].args.status],
             processed |-> FALSE, processed_at |-> NoTime]]
    ELSE webhookEvents

\* an exception leaves `with transaction.atomic()`: the insert is undone
EventsAfterRollback(t) == webhookEvents

\* WebhookEvent.objects.get_or_create(event_id=...) and the test of processed
GetOrCreate(t) ==
    /\ t \in WebhookTaskIds
    /\ tasks[t] # NoTask
    /\ tasks[t].state = "queued"
    /\ txn[t].pc = "idle"
    /\ IF AlreadyProcessed(tasks[t].args.event_id)
       THEN /\ tasks' = [tasks EXCEPT ![t] = AfterReturn(@)]
            /\ UNCHANGED txn
       ELSE /\ webhookEvents[tasks[t].args.event_id].exists \/ ~InsertBlocked(t)
            /\ txn' = [txn EXCEPT ![t] =
                         [@ EXCEPT !.pc = "created",
                                   !.created = ~webhookEvents[tasks[t].args.event_id].exists]]
            /\ UNCHANGED tasks
    /\ UNCHANGED resVars
    /\ UNCHANGED <<orders, webhookEvents, emailLog, mailsSent, failedTasks, clock, intake>>

\* Order.objects.select_for_update().get(payment_reference=...); when there is no
\* such order the event is marked processed and the transaction commits
SelectForUpdate(t) ==
    /\ t \in WebhookTaskIds
    /\ txn[t].pc = "created"
    /\ IF OrderByReference(tasks[t].args.payment_reference) = {}
       THEN /\ webhookEvents' = EventsAfterWebhook(tasks[t].args)
            /\ clock' = clock + 1
            /\ tasks' = [tasks EXCEPT ![t] = AfterReturn(@)]
            /\ txn' = [txn EXCEPT ![t] = NoTxn]
       ELSE /\ \E r \in OrderByReference(tasks[t].args.payment_reference) :
                  /\ ~RowLocked(t, r)
                  /\ txn' = [txn EXCEPT ![t] =
                               [@ EXCEPT !.pc = "locked", !.r = r, !.order = orders[r]]]
            /\ UNCHANGED <<webhookEvents, clock, tasks>>
    /\ UNCHANGED resVars
    /\ UNCHANGED <<orders, emailLog, mailsSent, failedTasks, intake>>

\* order.save(update_fields=["payment_status", "status"]) of the branch that ran:
\* the two fields of the in-memory order are written
SavedOrders(t) ==
    IF ApplyStatus(txn[t].order, tasks[t].args.status) = txn[t].order
    THEN orders
    ELSE [orders EXCEPT ![txn[t].r] =
            [@ EXCEPT !.payment_status =
                          ApplyStatus(txn[t].order, tasks[t].args.status).payment_status,
                      !.status = ApplyStatus(txn[t].order, tasks[t].args.status).status]]

\* the transaction of task t is rolled back and the exception reaches self.retry
RollBack(t, err) ==
    /\ tasks' = [tasks EXCEPT ![t] = AfterRaise(@, err)]
    /\ failedTasks' = FailedTasksAfterRaise(failedTasks, t, tasks[t], err)
    /\ webhookEvents' = EventsAfterRollback(t)
    /\ txn' = [txn EXCEPT ![t] = NoTxn]
    /\ UNCHANGED resVars
    /\ UNCHANGED <<orders, emailLog, mailsSent, clock, intake>>

\* the branches on status, the event marked processed and the commit
ApplyAndCommit(t) ==
    /\ t \in WebhookTaskIds
    /\ txn[t].pc = "locked"
    /\ IF tasks[t].args.status = "failed" /\ ~HasOrderConstant("STATUS_PAYMENT_FAILED")
       THEN RollBack(t, "attribute")
       ELSE /\ orders' = SavedOrders(t)
            /\ webhookEvents' = EventsAfterWebhook(tasks[t].args)
            /\ clock' = clock + 1
            /\ tasks' = [tasks EXCEPT ![t] = AfterReturn(@)]
            /\ txn' = [txn EXCEPT ![t] = NoTxn]
            /\ UNCHANGED resVars
            /\ UNCHANGED <<emailLog, mailsSent, failedTasks, intake>>

\* a store error in a statement of the open transaction
AbortWebhook(t) ==
    /\ t \in WebhookTaskIds
    /\ txn[t].pc \in {"created", "locked"}
    /\ RollBack(t, "db")

\* the events are about the first order
WorkerRefs == {1}

NextWorkers ==
    \/ \E t \in WebhookTaskIds, e \in EventIds, ref \in WorkerRefs, st \in Statuses :
          Deliver(t, e, ref, st)
    \/ \E t \in WebhookTaskIds : GetOrCreate(t)
    \/ \E t \in WebhookTaskIds : SelectForUpdate(t)
    \/ \E t \in WebhookTaskIds : ApplyAndCommit(t)
    \/ \E t \in WebhookTaskIds : AbortWebhook(t)

SpecWorkers == InitPlaced /\ [][NextWorkers]_vars

\* ---- the confirmation email task (send_order_confirmation_email) ----

\* the ids of the confirmation tasks: those create() enqueued and replayed ones
EmailTaskIds == Reqs \cup ReplayTaskIds

\* the unique check with a bug: EmailLog has no unique_together
NeverLogged(o) == FALSE

\* unique_together = ["order", "email_type"]: the create raises IntegrityError
AlreadyLogged(o) == o \in emailLog

\* except Order.DoesNotExist: raise -- the task ends in failure at once
AfterDoesNotExist(task) ==
    [task EXCEPT !.state = "failed", !.runs = @ + 1, !.error = "DoesNotExist"]

\* Order.objects.get(id=order_id) and EmailLog.objects.create(...); f = "db" is a
\* store error in the get
EmailBegin(t, f) ==
    /\ t \in EmailTaskIds
    /\ tasks[t] # NoTask
    /\ tasks[t].name = "send_order_confirmation_email"
    /\ tasks[t].state = "queued"
    /\ txn[t].pc = "idle"
    /\ IF f = "db"
       THEN /\ tasks' = [tasks EXCEPT ![t] = AfterRaise(@, "db")]
            /\ failedTasks' = FailedTasksAfterRaise(failedTasks, t, tasks[t], "db")
            /\ UNCHANGED <<emailLog, txn>>
       ELSE IF ~orders[tasks[t].args.order_id].exists
       THEN /\ tasks' = [tasks EXCEPT ![t] = AfterDoesNotExist(@)]
            /\ failedTasks' = on_failure(failedTasks, t, tasks[t], "DoesNotExist")
            /\ UNCHANGED <<emailLog, txn>>
       ELSE IF AlreadyLogged(tasks[t].args.order_id)
       THEN /\ tasks' = [tasks EXCEPT ![t] = AfterReturn(@)]
            /\ UNCHANGED <<emailLog, txn, failedTasks>>
       ELSE /\ emailLog' = emailLog \cup {tasks[t].args.order_id}
            /\ txn' = [txn EXCEPT ![t] = [@ EXCEPT !.pc = "logged"]]
            /\ UNCHANGED <<tasks, failedTasks>>
    /\ UNCHANGED resVars
    /\ UNCHANGED <<orders, webhookEvents, mailsSent, clock, intake>>

\* send_mail(..., fail_silently=False); f = "smtp" is a failure of the send, which
\* reaches `except Exception` and self.retry
EmailSend(t, f) ==
    /\ t \in EmailTaskIds
    /\ tasks[t] # NoTask
    /\ txn[t].pc = "logged"
    /\ IF f = "smtp"
       THEN /\ tasks' = [tasks EXCEPT ![t] = AfterRaise(@, "smtp")]
            /\ failedTasks' = FailedTasksAfterRaise(failedTasks, t, tasks[t], "smtp")
            /\ UNCHANGED mailsSent
       ELSE /\ tasks' = [tasks EXCEPT ![t] = AfterReturn(@)]
            /\ mailsSent' = [mailsSent EXCEPT ![tasks[t].args.order_id] = @ + 1]
            /\ UNCHANGED failedTasks
    /\ txn' = [txn EXCEPT ![t] = NoTxn]
    /\ UNCHANGED resVars
    /\ UNCHANGED <<orders, webhookEvents, emailLog, clock, intake>>

SendFaults == {"none", "smtp"}

NextEmail ==
    \/ \E t \in EmailTaskIds, f \in TaskFaults : EmailBegin(t, f)
    \/ \E t \in EmailTaskIds, f \in SendFaults : EmailSend(t, f)
    \/ \E id \in TaskIds : RetryById(id)
    \/ RetryAll

SpecEmail == InitPlaced /\ [][NextEmail]_vars

\* ---- termination: requests and their confirmation tasks under fair scheduling ----

\* two requests over the same two products in either order, or twice the same
LiveReqs == {1, 2}
LiveLists ==
    {<<[product_id |-> "A", quantity |-> 3], [product_id |-> "B", quantity |-> 3]>>,
     <<[product_id |-> "B", quantity |-> 3], [product_id |-> "A", quantity |-> 3]>>,
     <<[product_id |-> "A", quantity |-> 3], [product_id |-> "A", quantity |-> 3]>>}

\* the steps of the thread that serves request r: acquire returns within
\* blocking_timeout, the database and the broker answer or fail
RequestStep(r) ==
    \/ Acquire(r)
    \/ AcquireTimeout(r)
    \/ AtomicRead(r)
    \/ \E f \in Faults : AtomicBody(r, f)
    \/ Finally(r)

\* the steps of the worker that runs the confirmation task t
EmailStep(t) ==
    \/ \E f \in TaskFaults : EmailBegin(t, f)
    \/ EmailSend(t, "none")

NextLive ==
    \/ \E r \in LiveReqs, items \in LiveLists : Start(r, items)
    \/ \E r \in LiveReqs : RequestStep(r)
    \/ \E p \in Products : LeaseExpire(p)
    \/ \E t \in LiveReqs : EmailStep(t)

\* a request thread that can take a step takes one, and a worker runs a queued task
SpecLive ==
    /\ Init
    /\ [][NextLive]_vars
    /\ \A r \in LiveReqs : WF_vars(RequestStep(r))
    /\ \A t \in LiveReqs : WF_vars(EmailStep(t))

\* ---- the periodic jobs of the beat schedule ----

\* the jobs of app.conf.beat_schedule; the model keeps their task instances and
\* whether a run raised, not the rows they write
PeriodicNames == {"check_low_stock", "cleanup_old_webhooks", "generate_daily_sales_report"}

\* the ids of the tasks the beat submits
BeatTaskIds == WebhookTaskIds

NoArgs == [order_id |-> 0, event_id |-> 0, payment_reference |-> 0, status |-> "none"]

\* the beat submits a periodic job
Beat(t, name) ==
    /\ t \in BeatTaskIds
    /\ tasks[t] = NoTask
    /\ \A u \in BeatTaskIds : u < t => tasks[u] # NoTask
    /\ tasks' = [tasks EXCEPT ![t] = NewTask(name, NoArgs)]
    /\ UNCHANGED resVars
    /\ UNCHANGED <<orders, webhookEvents, emailLog, mailsSent, failedTasks, clock,
                   intake, txn>>

PeriodicFaults == {"none", "error"}

\* one run of a periodic job: it returns, or an exception reaches
\* `except Exception` and self.retry(exc=exc, countdown=...)
PeriodicRun(t, f) ==
    /\ t \in BeatTaskIds
    /\ tasks[t] # NoTask
    /\ tasks[t].name \in PeriodicNames
    /\ tasks[t].state = "queued"
    /\ IF f = "none"
       THEN /\ tasks' = [tasks EXCEPT ![t] = AfterReturn(@)]
            /\ UNCHANGED failedTasks
       ELSE /\ tasks' = [tasks EXCEPT ![t] = AfterRaise(@, f)]
            /\ failedTasks' = FailedTasksAfterRaise(failedTasks, t, tasks[t], f)
    /\ UNCHANGED resVars
    /\ UNCHANGED <<orders, webhookEvents, emailLog, mailsSent, clock, intake, txn>>

NextPeriodic ==
    \/ \E t \in BeatTaskIds, name \in PeriodicNames : Beat(t, name)
    \/ \E t \in BeatTaskIds, f \in PeriodicFaults : PeriodicRun(t, f)

SpecPeriodic == InitPlaced /\ [][NextPeriodic]_vars

\* ---- the intake and the processor together, for any status token ----

\* request bodies with all required fields, and with the amount left out
StatusKinds ==
    {[x \in Fields |-> "value"],
     [x \in Fields |-> IF x = "amount" THEN "absent" ELSE "value"]}

NextStatus ==
    \/ \E e \in LateEvents, ref \in WorkerRefs, st \in Statuses, k \in StatusKinds :
          Intake(e, ref, st, k)
    \/ \E t \in WebhookTaskIds, f \in TaskFaults : ExecuteWebhook(t, f)

SpecStatus == InitPlaced /\ [][NextStatus]_vars

\* ---- an event that arrives before its order ----

\* one order is committed; the request that creates the second order has not
\* started yet, and events that name the second order's reference are delivered
\* before, while and after it is created
LateReq == 2
LateRefs == {LateReq}

InitLate ==
    /\ InitReservation
    /\ InitTasks
    /\ orders = [r \in Reqs |-> NoOrder]
    /\ tasks = [t \in TaskIds |-> NoTask]

NextLate ==
    \/ Start(LateReq, PlacedItems(LateReq))
    \/ Acquire(LateReq)
    \/ AtomicRead(LateReq)
    \/ \E f \in Faults : AtomicBody(LateReq, f)
    \/ Finally(LateReq)
    \/ \E t \in WebhookTaskIds, e \in LateEvents, ref \in LateRefs, st \in Statuses :
          Deliver(t, e, ref, st)
    \/ \E t \in WebhookTaskIds, f \in TaskFaults : ExecuteWebhook(t, f)

SpecLate == InitLate /\ [][NextLate]_vars

\* ---- claims C11 .. C20 ----

\* the orders whose payment_reference is the one task t carries
OrdersOf(t) ==
    {r \in Reqs : orders[r].exists
                  /\ orders[r].payment_reference = tasks[t].args.payment_reference}

\* C11: an execution for a not yet processed event with status success, not hit by
\* a store error, makes an order that is not paid paid and confirmed, leaves an
\* order that is already paid as it is, and in both cases marks the event processed
C11_SuccessPaysOnce ==
    [][\A t \in WebhookTaskIds :
          (/\ Runs(t)
           /\ ~EventDone(t)
           /\ tasks[t].args.status = "success"
           /\ tasks'[t].error # "db"
           /\ OrdersOf(t) # {})
              => /\ \A r \in OrdersOf(t) :
                      IF orders[r].payment_status = "paid"
                      THEN orders'[r] = orders[r]
                      ELSE /\ orders'[r].payment_status = "paid"
                           /\ orders'[r].status = "confirmed"
                           /\ orders'[r].total = orders[r].total
                           /\ orders'[r].items = orders[r].items
                 /\ tasks'[t].state = "success"
                 /\ webhookEvents'[tasks[t].args.event_id].exists
                 /\ webhookEvents'[tasks[t].args.event_id].processed]_vars

\* C11 witness: two different events with status success for the same order are
\* both processed and the order is paid and confirmed
C11_Witness ==
    \E t, u \in WebhookTaskIds :
        /\ t # u
        /\ tasks[t] # NoTask /\ tasks[u] # NoTask
        /\ tasks[t].state = "success" /\ tasks[u].state = "success"
        /\ tasks[t].args.status = "success" /\ tasks[u].args.status = "success"
        /\ tasks[t].args.event_id # tasks[u].args.event_id
        /\ tasks[t].args.payment_reference = 1 /\ tasks[u].args.payment_reference = 1
        /\ orders[1].payment_status = "paid" /\ orders[1].status = "confirmed"
        /\ \A e \in EventIds : webhookEvents[e].exists /\ webhookEvents[e].processed

\* C12: an execution for a not yet processed event whose reference matches no
\* order, not hit by a store error, marks the event processed, ends in success,
\* schedules no retry, records no FailedTask and changes no order; every later
\* execution for that event identifier changes neither the orders nor the event,
\* whether or not a matching order exists by then
C12_OrphanConsumed ==
    [][\A t \in WebhookTaskIds :
          /\ (/\ Runs(t)
              /\ ~EventDone(t)
              /\ OrdersOf(t) = {}
              /\ tasks'[t].error # "db")
                 => /\ webhookEvents'[tasks[t].args.event_id].exists
                    /\ webhookEvents'[tasks[t].args.event_id].processed
                    /\ tasks'[t].state = "success"
                    /\ tasks'[t].retries = tasks[t].retries
                    /\ failedTasks' = failedTasks
                    /\ orders' = orders
          /\ (Runs(t) /\ EventDone(t))
                 => /\ orders' = orders
                    /\ webhookEvents' = webhookEvents
                    /\ tasks'[t].error # "db"
                          => tasks'[t].state = "success" /\ failedTasks' = failedTasks]_vars

\* C12 witness: an event with status success was consumed while its order did
\* not exist, the order was committed afterwards, a redelivery of the event ran,
\* and the order is still pending
C12_Witness ==
    \E t, u \in WebhookTaskIds, e \in EventIds :
        /\ t # u
        /\ tasks[t] # NoTask /\ tasks[u] # NoTask
        /\ tasks[t].args = WebhookArgs(e, LateReq, "success")
        /\ tasks[u].args = WebhookArgs(e, LateReq, "success")
        /\ tasks[t].state = "success" /\ tasks[u].state = "success"
        /\ webhookEvents[e].exists /\ webhookEvents[e].processed
        /\ orders[LateReq].exists
        /\ orders[LateReq].payment_status = "pending"

\* the tasks a step of the replay command submits, and the FailedTask rows it marks
Submitted == {t \in ReplayTaskIds : tasks[t] = NoTask /\ tasks'[t] # NoTask}
Marked ==
    {i \in 1 .. Len(failedTasks) : ~failedTasks[i].retried /\ failedTasks'[i].retried}

\* C13: no step deletes a FailedTask or changes its task name, task id, arguments
\* or exception; a step that replays records submits one task for each record it
\* marks (one task when it replays a record that was marked before), each with
\* the task name and the arguments of a record that is marked retried with a
\* retried_at after the step
C13_ReplayKeepsRecord ==
    [][/\ Len(failedTasks') >= Len(failedTasks)
       /\ \A i \in 1 .. Len(failedTasks) :
             /\ failedTasks'[i].task_name = failedTasks[i].task_name
             /\ failedTasks'[i].task_id = failedTasks[i].task_id
             /\ failedTasks'[i].args = failedTasks[i].args
             /\ failedTasks'[i].exception = failedTasks[i].exception
             /\ failedTasks[i].retried => failedTasks'[i].retried
       /\ Submitted # {} =>
             /\ Cardinality(Submitted) = IF Marked = {} THEN 1 ELSE Cardinality(Marked)
             /\ \A t \in Submitted :
                   /\ tasks'[t].state = "queued" /\ tasks'[t].retries = 0
                   /\ \E i \in 1 .. Len(failedTasks) :
                         /\ tasks'[t].name = failedTasks[i].task_name
                         /\ tasks'[t].args = failedTasks[i].args
                         /\ failedTasks'[i].retried
                         /\ failedTasks'[i].retried_at = clock
             /\ \A i \in Marked :
                   \E t \in Submitted : /\ tasks'[t].name = failedTasks[i].task_name
                                        /\ tasks'[t].args = failedTasks[i].args]_vars

\* C13 witness: a dead-lettered delivery was replayed, its record is kept and
\* marked, and the replayed task failed again into a second record
C13_Witness ==
    /\ Len(failedTasks) >= 2
    /\ failedTasks[1].retried
    /\ failedTasks[1].retried_at # NoTime
    /\ failedTasks[1].task_id \in WebhookTaskIds
    /\ failedTasks[2].task_id \in ReplayTaskIds
    /\ failedTasks[2].args = failedTasks[1].args
    /\ failedTasks[2].task_name = failedTasks[1].task_name

\* the tasks a step of the intake enqueues
IntakeEnqueued ==
    {t \in WebhookTaskIds : /\ tasks[t] = NoTask /\ tasks'[t] # NoTask
                            /\ tasks'[t].name = "process_payment_webhook"}

\* C14: a request whose reference, status and amount are all present is answered
\* 200 and enqueues exactly one process_payment_webhook task; a request with one
\* of them absent is answered 400 and enqueues nothing
C14_IntakeAcceptsPresent ==
    [][intake'.seq # intake.seq =>
          IF \A x \in Fields : intake'.kinds[x] # "absent"
          THEN intake'.response = 200 /\ Cardinality(IntakeEnqueued) = 1
          ELSE intake'.response = 400 /\ IntakeEnqueued = {}]_vars

\* C15: the transaction that creates an order reads Product.price as committed at
\* that moment, and the order's items carry the prices it read and its total
\* their sum; no later step, a price change included, changes the items or the
\* total of an order that exists
C15_PriceSnapshot ==
    [][\A r \in Reqs :
          /\ (pc[r] = "atomic" /\ pc'[r] = "body") =>
                \A p \in Products :
                    products'[r][p].loaded => products'[r][p].price = price[p]
          /\ (~orders[r].exists /\ orders'[r].exists) =>
                /\ \A i \in 1 .. Len(orders'[r].items) :
                      orders'[r].items[i].price
                          = products[r][orders'[r].items[i].product].price
                /\ orders'[r].total = SubtotalSum(orders'[r].items, Len(orders'[r].items))
          /\ orders[r].exists =>
                /\ orders'[r].exists
                /\ orders'[r].items = orders[r].items
                /\ orders'[r].total = orders[r].total]_vars

\* C15 witness: the price of a product was changed after an order of it was
\* committed, and the order still has the old price and the old total
C15_Witness ==
    \E r \in Reqs :
        /\ orders[r].exists
        /\ Len(orders[r].items) = 1
        /\ orders[r].items[1].price # price[orders[r].items[1].product]
        /\ orders[r].total = orders[r].items[1].price * orders[r].items[1].quantity
        /\ pc[r] = "done"

\* the order of the product identifiers
IdOrder(p) == IF p = "A" THEN 1 ELSE 2

\* request r holds the lock of product p and is blocked in acquire for product q
HoldsAndWaits(r, p, q) ==
    /\ pc[r] = "locking"
    /\ lock[p].req = r
    /\ Len(locks_acquired[r]) < Len(items_data[r])
    /\ NextKey(r) = q
    /\ lock[q] # NoLock

\* C16: every request acquires its locks in ascending order of product id, and
\* no two requests each hold one lock while waiting for the lock the other holds
C16_SortedLockOrder ==
    /\ \A r \in Reqs : \A i, j \in 1 .. Len(locks_acquired[r]) :
          i < j => IdOrder(locks_acquired[r][i].key) <= IdOrder(locks_acquired[r][j].key)
    /\ \A r, q \in Reqs : \A a, b \in Products :
          ~(r # q /\ a # b /\ HoldsAndWaits(r, a, b) /\ HoldsAndWaits(q, b, a))

\* C17: a product's lock has one holder, a request that has read the stock of a
\* product and has not yet committed holds that product's lock, and no two
\* requests are between the read and the commit of the same product
C17_LockCoversTransaction ==
    /\ \A r \in Reqs : \A p \in Products :
          (pc[r] = "body" /\ products[r][p].loaded) => lock[p].req = r
    /\ \A r, q \in Reqs : \A p \in Products :
          ~(/\ r # q
            /\ pc[r] = "body" /\ products[r][p].loaded
            /\ pc[q] = "body" /\ products[q][p].loaded)

\* C20: a confirmation task exists only for an order that is committed
C20_EmailAfterCommit ==
    \A r \in Reqs : tasks[r] # NoTask => orders[r].exists

\* the webhook tasks whose transaction is open
OpenTxns == {t \in WebhookTaskIds : tasks[t] # NoTask /\ txn[t].pc # "idle"}

\* C18: of the open transactions at most one has inserted the row of an event
\* identifier, and none when a committed row exists; at most one holds the row
\* of an order, and the order it read is the committed one until it writes, so
\* no other transaction wrote between its read and its write; an order that is
\* paid is not written again
C18_WebhookSerialized ==
    /\ [](\A t, u \in OpenTxns :
            /\ (txn[t].created /\ txn[u].created
                /\ tasks[t].args.event_id = tasks[u].args.event_id) => t = u
            /\ txn[t].created => ~webhookEvents[tasks[t].args.event_id].exists
            /\ (txn[t].pc = "locked" /\ txn[u].pc = "locked" /\ txn[t].r = txn[u].r)
                  => t = u
            /\ txn[t].pc = "locked" => txn[t].order = orders[txn[t].r])
    /\ [][\A r \in Reqs :
            (orders[r].exists /\ orders[r].payment_status = "paid")
               => orders'[r] = orders[r]]_vars

\* C18 witness: two deliveries with status success for the same order are in
\* open transactions, one holds the row of the order and has read it pending,
\* the other has inserted its event row and has not got the order yet
C18_Witness ==
    \E t, u \in OpenTxns :
        /\ t # u
        /\ tasks[t].args.status = "success" /\ tasks[u].args.status = "success"
        /\ tasks[t].args.payment_reference = tasks[u].args.payment_reference
        /\ txn[t].pc = "locked" /\ txn[t].order.payment_status = "pending"
        /\ txn[u].pc = "created" /\ txn[u].created

\* C19: an execution of the webhook task that raises leaves the Order rows and
\* the WebhookEvent rows as they were before its transaction, leaves no
\* transaction open, and is queued again with one more retry while retries are
\* left (after the last one it ends in failure with one FailedTask row)
C19_ErrorRollsBack ==
    [][\A t \in WebhookTaskIds :
          (Runs(t) /\ tasks'[t].error # "none")
             => /\ orders' = orders
                /\ webhookEvents' = webhookEvents
                /\ ~webhookEvents'[tasks[t].args.event_id].exists
                      \/ webhookEvents'[tasks[t].args.event_id].processed
                /\ txn'[t] = NoTxn
                /\ IF tasks[t].retries < MaxRetries
                   THEN /\ tasks'[t].state = "queued"
                        /\ tasks'[t].retries = tasks[t].retries + 1
                        /\ tasks'[t].args = tasks[t].args
                        /\ failedTasks' = failedTasks
                   ELSE /\ tasks'[t].state = "failed"
                        /\ Len(failedTasks') = Len(failedTasks) + 1]_vars

\* C19 witness: a delivery whose transaction was rolled back by a store error
\* after it had locked the order ran again from the start and paid the order
C19_Witness ==
    \E t \in WebhookTaskIds :
        /\ tasks[t] # NoTask
        /\ tasks[t].state = "success"
        /\ tasks[t].runs >= 2
        /\ tasks[t].args.status = "success"
        /\ \E r \in Reqs : /\ orders[r].payment_reference = tasks[t].args.payment_reference
                           /\ orders[r].payment_status = "paid"
        /\ webhookEvents[tasks[t].args.event_id].exists
        /\ webhookEvents[tasks[t].args.event_id].payload.status = "success"

\* ---- claims C21 .. C30 ----

\* C21: the attempt that follows a failed mail send calls the mail send again: an
\* email task that was queued again after a failure of the send and now ends in
\* success has handed one more mail to send_mail
C21_FailedSendIsRetried ==
    [][\A t \in EmailTaskIds :
          (/\ tasks[t] # NoTask
           /\ tasks[t].name = "send_order_confirmation_email"
           /\ tasks[t].state = "queued"
           /\ tasks[t].error = "smtp"
           /\ tasks'[t].state = "success")
             => mailsSent'[tasks[t].args.order_id] = mailsSent[tasks[t].args.order_id] + 1]_vars

\* C22: at most one confirmation mail is handed to send_mail for an order, and an
\* execution that starts when the order is already logged, not hit by a store
\* error, ends in success with no retry, no FailedTask and no mail
C22_EmailAtMostOnce ==
    /\ [](\A r \in Reqs : mailsSent[r] <= 1)
    /\ [][\A t \in EmailTaskIds :
            (/\ Runs(t)
             /\ txn[t].pc = "idle"
             /\ tasks[t].args.order_id \in emailLog
             /\ tasks'[t].error # "db")
               => /\ tasks'[t].state = "success"
                  /\ tasks'[t].retries = tasks[t].retries
                  /\ failedTasks' = failedTasks
                  /\ mailsSent' = mailsSent]_vars

\* C22 witness: the mail of an order was sent once, and two replayed tasks for
\* that order have both ended in success
C22_Witness ==
    \E t, u \in ReplayTaskIds :
        /\ t # u
        /\ tasks[t] # NoTask /\ tasks[u] # NoTask
        /\ tasks[t].args.order_id = 1 /\ tasks[u].args.order_id = 1
        /\ tasks[t].state = "success" /\ tasks[u].state = "success"
        /\ mailsSent[1] = 1

\* C23: a request never has two handles on one product, and never waits in
\* acquire for a lock that one of its own handles holds
C23_DedupBeforeLocking ==
    \A r \in Reqs :
        /\ \A i, j \in 1 .. Len(locks_acquired[r]) :
              i < j => locks_acquired[r][i].key # locks_acquired[r][j].key
        /\ ~(/\ pc[r] = "locking"
             /\ Len(locks_acquired[r]) < Len(items_data[r])
             /\ lock[NextKey(r)].req = r)

\* C24: a request that has entered create() leaves it, and a request that has
\* left it holds no lock; a confirmation task that was enqueued ends in success
\* or in failure with a FailedTask row
C24_Terminates ==
    /\ \A r \in LiveReqs : (pc[r] = "locking") ~> (pc[r] = "done")
    /\ [](\A r \in LiveReqs : pc[r] = "done" =>
             /\ outcome[r] # "none"
             /\ \A p \in Products : lock[p].req # r)
    /\ \A t \in LiveReqs :
          (tasks[t] # NoTask) ~>
              (\/ tasks[t].state = "success"
               \/ tasks[t].state = "failed" /\ FailedRows(t) # {})

\* C24 witness: two requests over the same products in opposite orders have both
\* returned, one of them after a lock wait timed out, and the confirmation task
\* of the other has ended
C24_Witness ==
    \E r, q \in LiveReqs :
        /\ r # q
        /\ pc[r] = "done" /\ pc[q] = "done"
        /\ Len(items_data[r]) = 2 /\ Len(items_data[q]) = 2
        /\ items_data[r][1].product_id = items_data[q][2].product_id
        /\ items_data[r][1].product_id # items_data[r][2].product_id
        /\ outcome[r] = "contention"
        /\ outcome[q] = "created"
        /\ tasks[q] # NoTask /\ tasks[q].state \in {"success", "failed"}
        /\ \A p \in Products : lock[p] = NoLock

\* C25: every task the replay command submits is for a record that was not
\* retried before: a step submits exactly as many tasks as it marks records
C25_ReplayOnlyUnretried ==
    [][Cardinality(Submitted) = Cardinality(Marked)]_vars

\* C26: no task is retried more than 3 times, and the countdown of each retry
\* after the first is twice the countdown of the retry before it
C26_BackoffDoubles ==
    [][\A t \in TaskIds :
          (tasks[t] # NoTask /\ tasks'[t].retries = tasks[t].retries + 1)
             => /\ tasks'[t].retries <= 3
                /\ tasks[t].retries >= 1 => tasks'[t].countdown = 2 * tasks[t].countdown]_vars

\* C27: the finally block of a request leaves none of its handles in the cache,
\* whether or not a release raised on the way, touches no lock of another
\* request, and leaves the request's outcome and the committed rows as they were
C27_ReleaseErrorsSwallowed ==
    [][\A r \in Reqs :
          (pc[r] = "finally" /\ pc'[r] = "done")
             => /\ outcome'[r] = outcome[r]
                /\ orders' = orders
                /\ stock' = stock
                /\ \A i \in HandleIdx(r) :
                      lock'[locks_acquired[r][i].key] # locks_acquired[r][i]
                /\ \A p \in Products : lock[p].req # r => lock'[p] = lock[p]]_vars

\* C27 witness: request r committed its order of A and B and has left finally;
\* request q owns the lock of A and read the stock of A before r committed, so
\* the lease of r's handle on A had run out and r's release of it raised; the
\* lock of B, the next in r's list, is released
C27_Witness ==
    \E r, q \in Reqs :
        /\ r # q
        /\ pc[r] = "done" /\ outcome[r] = "created"
        /\ Len(locks_acquired[r]) = 2
        /\ locks_acquired[r][1].key = "A" /\ locks_acquired[r][2].key = "B"
        /\ \A s \in Reqs : orders[s].exists <=> s = r
        /\ pc[q] = "body"
        /\ lock["A"].req = q
        /\ products[q]["A"].loaded
        /\ products[q]["A"].stock_quantity = InitStock
        /\ stock["A"] < InitStock
        /\ lock["B"] = NoLock

\* C28: for every product the initial stock is the committed stock_quantity plus
\* the quantity of the product in the committed OrderItems
C28_StockConserved ==
    \A p \in Products : stock[p] + CommittedQuantity(p, MaxReqs) = InitStock

C30_WebhookFrame ==
    [][\A t \in WebhookTaskIds :
          Runs(t) =>
             /\ \A r \in Reqs :
                   /\ orders'[r].exists = orders[r].exists
                   /\ orders[r].exists =>
                         /\ orders'[r].total = orders[r].total
                         /\ orders'[r].items = orders[r].items
                         /\ orders'[r].payment_reference = orders[r].payment_reference
                         /\ orders[r].payment_reference # tasks[t].args.payment_reference
                               => orders'[r] = orders[r]
             /\ \A e \in EventIds \ {tasks[t].args.event_id} :
                   webhookEvents'[e] = webhookEvents[e]
             /\ stock' = stock
             /\ price' = price
             /\ emailLog' = emailLog]_vars

\* C30 witness: a success event for the first order was processed: that order is
\* paid, the second order is still pending and the stock is what the orders left
C30_Witness ==
    /\ orders[1].payment_status = "paid"
    /\ orders[2].payment_status = "pending" /\ orders[2].status = "pending"
    /\ \E e \in EventIds :
          /\ webhookEvents[e].exists /\ webhookEvents[e].processed
          /\ webhookEvents[e].payload.payment_reference = 1
    /\ \A p \in Products : stock[p] = InitStock - 3

\* C31: the intake answers 200 and enqueues one task for a request with all
\* required fields, whatever its status token; an execution for a not yet
\* processed event whose status is neither success nor failed, for an order that
\* exists and not hit by a store error, leaves the orders as they are, marks the
\* event processed and ends in success; every later execution for that event
\* identifier, whatever its status, changes no order and no event
C31_UnknownStatusConsumed ==
    [][/\ (intake'.seq # intake.seq /\ \A x \in Fields : intake'.kinds[x] = "value")
             => /\ intake'.response = 200
                /\ Cardinality(IntakeEnqueued) = 1
       /\ \A t \in WebhookTaskIds :
             /\ (/\ Runs(t)
                 /\ ~EventDone(t)
                 /\ tasks[t].args.status \notin {"success", "failed"}
                 /\ OrdersOf(t) # {}
                 /\ tasks'[t].error # "db")
                    => /\ orders' = orders
                       /\ tasks'[t].state = "success"
                       /\ webhookEvents'[tasks[t].args.event_id].exists
                       /\ webhookEvents'[tasks[t].args.event_id].processed
             /\ (Runs(t) /\ EventDone(t))
                    => orders' = orders /\ webhookEvents' = webhookEvents]_vars

\* C31 witness: an event with status refunded for the first order was accepted and
\* processed, a redelivery of the same event identifier with status success was
\* accepted and has run, and the order is still pending
C31_Witness ==
    \E t, u \in WebhookTaskIds :
        /\ t < u
        /\ tasks[t] # NoTask /\ tasks[u] # NoTask
        /\ tasks[t].args.event_id = tasks[u].args.event_id
        /\ tasks[t].args.payment_reference = 1 /\ tasks[u].args.payment_reference = 1
        /\ tasks[t].args.status = "refunded" /\ tasks[u].args.status = "success"
        /\ tasks[t].state = "success" /\ tasks[u].state = "success"
        /\ webhookEvents[tasks[t].args.event_id].processed
        /\ webhookEvents[tasks[t].args.event_id].payload.status = "refunded"
        /\ orders[1].payment_status = "pending" /\ orders[1].status = "pending"
        /\ intake.response = 200

====
